---- MODULE Spec2Model ----
(***************************************************************************)
(* A state-machine model of MoonlighterScheduleOptimizer                   *)
(* (src/moonlighter_optimizer.py): the request index built by              *)
(* load_faculty_requests, the three strategies of optimize_schedule and    *)
(* the metrics of _generate_results.                                       *)
(*                                                                         *)
(* Dates are numbered: 1..NumNights are the nights start_date..end_date in *)
(* calendar order, OutsideDate is a requested date that is not one of      *)
(* them.  Requesters are numbered by their position in faculty_data (ids   *)
(* are unique, so the position identifies the requester).  A Python float  *)
(* a / b * 100 is kept as the exact fraction [num |-> a * 100, den |-> b]. *)
(***************************************************************************)
EXTENDS Integers, Sequences, FiniteSets, TLC

\* ------------------------------------------------------------------ bounds
NumFaculty == 2
NumNights == 2
MaxDesired == 2
MaxHeadcount == 2

\* ------------------------------------------------------------- input sets
FacultyIds == 1..NumFaculty
OutsideDate == NumNights + 1
Dates == 1..OutsideDate
Priorities == {1, 2, 3}
KnownStrategies == {"balanced", "coverage", "satisfaction"}
RepeatableStrategies == {"balanced", "coverage"}
InvalidStrategies == {"Balanced", "fairness"}
FacultyRecords ==
    [desired_nights : 0..MaxDesired,
     requested_dates : SUBSET Dates,
     priority : Priorities]

VARIABLES
    nights_per_coverage,  \* self.nights_per_coverage
    nights,               \* self.nights, the list of the period's nights
    faculty,              \* self.faculty, in insertion order
    requests,             \* self.requests: night -> list of requester ids
    faculty_requests,     \* self.faculty_requests: id -> set of dates
    desired_counts,       \* self.desired_counts
    assignments,          \* self.assignments: the keys present -> list of ids
    faculty_assignments,  \* self.faculty_assignments: id -> list of nights
    pc,                   \* "idle", or the strategy whose loop is running
    strategy,             \* the argument of the latest optimize_schedule call
    assigned_counts,      \* the run's local assigned_counts
    todo,                 \* the nights the run's for loop has not reached yet
    round_num,            \* rounds of _optimize_satisfaction begun so far
    max_rounds,           \* the local max_rounds
    pending,              \* active_faculty members whose turn is still to come
    round_base,           \* assigned_counts when the current round began
    outcome,              \* the latest call: "none", "loaded", "running", "ok", "error"
    results,              \* the dictionary the latest call returned, if it returned
    error,                \* the exception the latest call raised, if it raised
    first_schedule,       \* per strategy, the schedule of its first run since the load
    rerun                 \* the latest run repeats a strategy already run since the load

vars ==
    <<nights_per_coverage, nights, faculty, requests, faculty_requests,
      desired_counts, assignments, faculty_assignments, pc, strategy,
      assigned_counts, todo, round_num, max_rounds, pending, round_base,
      outcome, results, error, first_schedule, rerun>>

config == <<nights_per_coverage, nights>>
index == <<faculty, requests, faculty_requests, desired_counts>>
locals == <<assigned_counts, todo, round_num, max_rounds, pending, round_base>>

\* ---------------------------------------------------------------- helpers
Min(a, b) == IF a <= b THEN a ELSE b

NoValue == [none |-> TRUE]

\* No run of the strategy has returned since the load.
NotRun == [known |-> FALSE, schedule |-> <<>>]

\* A defaultdict(list) read: a missing key reads as the empty list.
Get(d, k) == IF k \in DOMAIN d THEN d[k] ELSE <<>>

\* A defaultdict(list) read also inserts the missing key.
Touch(d, k) == IF k \in DOMAIN d THEN d ELSE d @@ (k :> <<>>)

TouchAll(d, ks) == [k \in DOMAIN d \cup ks |-> Get(d, k)]

Range(s) == {s[i] : i \in DOMAIN s}

Count(s, x) == Cardinality({i \in DOMAIN s : s[i] = x})

RECURSIVE SumLen(_, _)
SumLen(d, ks) ==
    IF ks = {} THEN 0
    ELSE LET k == CHOOSE x \in ks : TRUE
         IN Len(d[k]) + SumLen(d, ks \ {k})

RECURSIVE SumOf(_, _)
SumOf(d, ks) ==
    IF ks = {} THEN 0
    ELSE LET k == CHOOSE x \in ks : TRUE
         IN d[k] + SumOf(d, ks \ {k})

\* sorted(seq, key=...): ascending by keys[i], equal keys keep their order.
StableSort(seq, keys) ==
    LET n == Len(seq)
        rank(i) == 1 + Cardinality({j \in 1..n :
                        \/ keys[j] < keys[i]
                        \/ keys[j] = keys[i] /\ j < i})
    IN [p \in 1..n |-> seq[CHOOSE i \in 1..n : rank(i) = p]]

\* ------------------------------------------------------------ construction
GenerateNights == [i \in 1..NumNights |-> i]

Init ==
    /\ nights_per_coverage \in 1..MaxHeadcount
    /\ nights = GenerateNights
    /\ faculty = <<>>
    /\ requests = [n \in Dates |-> <<>>]
    /\ faculty_requests = <<>>
    /\ desired_counts = <<>>
    /\ assignments = <<>>
    /\ faculty_assignments = <<>>
    /\ pc = "idle"
    /\ strategy = "none"
    /\ assigned_counts = <<>>
    /\ todo = <<>>
    /\ round_num = 0
    /\ max_rounds = 0
    /\ pending = {}
    /\ round_base = <<>>
    /\ outcome = "none"
    /\ results = NoValue
    /\ error = NoValue
    /\ first_schedule = [s \in RepeatableStrategies |-> NotRun]
    /\ rerun = FALSE

\* ------------------------------------------------------------------- load
\* The reverse index: a requested date is indexed only if it is a night of
\* the period; requesters are appended in the order they are loaded.
RECURSIVE Requesters(_, _, _)
Requesters(data, night, upto) ==
    IF upto = 0 THEN <<>>
    ELSE LET before == Requesters(data, night, upto - 1)
         IN IF night \in data[upto].requested_dates /\ night \in Range(nights)
            THEN Append(before, upto)
            ELSE before

LoadFacultyRequests ==
    /\ pc = "idle"
    /\ faculty = <<>>
    /\ \E data \in [FacultyIds -> FacultyRecords] :
         /\ faculty' = data
         /\ desired_counts' = [f \in FacultyIds |-> data[f].desired_nights]
         /\ faculty_requests' = [f \in FacultyIds |-> data[f].requested_dates]
         /\ requests' = [n \in Dates |-> Requesters(data, n, NumFaculty)]
    /\ first_schedule' = [s \in RepeatableStrategies |-> NotRun]
    /\ outcome' = "loaded"
    /\ results' = NoValue
    /\ error' = NoValue
    /\ UNCHANGED <<config, assignments, faculty_assignments, pc, strategy,
                   locals, rerun>>

\* --------------------------------------------------------------- dispatch
\* A variant that clears the schedule before the strategy name is looked at.
AssignmentsClearedOnEntry(s) == <<>>

\* A variant in which no method clears the schedule of the run before.
AssignmentsKeptOnEntry(s) == assignments

\* What a call does to self.assignments and self.faculty_assignments before
\* its loop: each strategy method begins by replacing both with empty
\* defaultdicts; an unknown name raises without entering a method.
AssignmentsOnEntry(s) ==
    IF s \in KnownStrategies THEN <<>> ELSE assignments

FacultyAssignmentsOnEntry(s) ==
    IF s \in KnownStrategies THEN <<>> ELSE faculty_assignments

\* sorted(self.nights, key=lambda n: len(self.requests[n]))
NightsByDifficulty ==
    StableSort(nights, [i \in DOMAIN nights |-> Len(requests[nights[i]])])

\* A variant that takes the smallest desired count for the number of rounds.
MaxRoundsOfTheLeast ==
    IF DOMAIN desired_counts = {} THEN 0
    ELSE CHOOSE m \in Range(desired_counts) :
            \A d \in Range(desired_counts) : m <= d

\* max(self.desired_counts.values()) if self.desired_counts else 0
MaxRounds ==
    IF DOMAIN desired_counts = {} THEN 0
    ELSE CHOOSE m \in Range(desired_counts) :
            \A d \in Range(desired_counts) : d <= m

StartRun(s) ==
    /\ pc = "idle"
    /\ strategy' = s
    /\ assignments' = AssignmentsOnEntry(s)
    /\ faculty_assignments' = FacultyAssignmentsOnEntry(s)
    /\ assigned_counts' = [f \in DOMAIN faculty |-> 0]
    /\ round_base' = [f \in DOMAIN faculty |-> 0]
    /\ pending' = {}
    /\ round_num' = 0
    /\ pc' = s
    /\ outcome' = "running"
    /\ results' = NoValue
    /\ error' = NoValue
    /\ rerun' = (s \in DOMAIN first_schedule /\ first_schedule[s].known)
    /\ UNCHANGED <<config, index, first_schedule>>

OptimizeBalanced ==
    /\ StartRun("balanced")
    /\ todo' = NightsByDifficulty
    /\ max_rounds' = 0

OptimizeCoverageFirst ==
    /\ StartRun("coverage")
    /\ todo' = NightsByDifficulty
    /\ max_rounds' = 0

OptimizeSatisfaction ==
    /\ StartRun("satisfaction")
    /\ todo' = <<>>
    /\ max_rounds' = MaxRounds

OptimizeUnknown ==
    /\ pc = "idle"
    /\ \E s \in InvalidStrategies :
         /\ strategy' = s
         /\ assignments' = AssignmentsOnEntry(s)
         /\ faculty_assignments' = FacultyAssignmentsOnEntry(s)
         /\ error' = [type |-> "ValueError", strategy |-> s]
    /\ outcome' = "error"
    /\ results' = NoValue
    /\ UNCHANGED <<config, index, pc, locals, first_schedule, rerun>>

\* ------------------------------------------------------- the shared append
\* for faculty_id in top: self.assignments[night].append(faculty_id);
\* self.faculty_assignments[faculty_id].append(night); assigned_counts += 1
AssignAll(top, night) ==
    /\ assignments' = [Touch(assignments, night) EXCEPT ![night] = @ \o top]
    /\ faculty_assignments' =
         [f \in DOMAIN faculty_assignments \cup Range(top) |->
            Get(faculty_assignments, f) \o [i \in 1..Count(top, f) |-> night]]
    /\ assigned_counts' =
         [f \in DOMAIN assigned_counts |-> assigned_counts[f] + Count(top, f)]

\* A variant of the slice that takes one candidate too many.
TopNOffByOne(seq) == SubSeq(seq, 1, Min(nights_per_coverage + 1, Len(seq)))

\* seq[:self.nights_per_coverage]
TopN(seq) == SubSeq(seq, 1, Min(nights_per_coverage, Len(seq)))

\* A variant that takes every loaded requester as a candidate of the night.
AvailableEveryone(night) == [i \in 1..Len(faculty) |-> i]

\* available = self.requests[night]
Available(night) == requests[night]

\* --------------------------------------------------------------- balanced
\* A variant that gives every tier the bonus of the default tier.
PriorityBonusFlat(f) == 20

\* priority_bonus = (4 - priority) * 10, priority defaulting to 2
PriorityBonus(f) == (4 - faculty[f].priority) * 10

Deficit(f, counts) == desired_counts[f] - counts[f]

Score(f, counts) == Deficit(f, counts) * 10 + PriorityBonus(f)

\* scored_faculty after sort(key=score, reverse=True): highest score first,
\* equal scores in the order of self.requests[night].
BalancedCandidates(night, counts) ==
    LET available == Available(night)
    IN StableSort(available,
                  [i \in DOMAIN available |-> 0 - Score(available[i], counts)])

BalancedNight ==
    /\ pc = "balanced"
    /\ todo # <<>>
    /\ LET night == Head(todo)
       IN IF Available(night) = <<>>
          THEN UNCHANGED <<assignments, faculty_assignments, assigned_counts>>
          ELSE AssignAll(TopN(BalancedCandidates(night, assigned_counts)), night)
    /\ todo' = Tail(todo)
    /\ UNCHANGED <<config, index, pc, strategy, round_num, max_rounds, pending,
                   round_base, outcome, results, error, first_schedule, rerun>>

\* --------------------------------------------------------------- coverage
\* A variant that drops the candidates who have reached their desired count.
CoverageCandidatesUnderQuota(night, counts) ==
    LET available ==
            SelectSeq(Available(night), LAMBDA f : counts[f] < desired_counts[f])
    IN StableSort(available,
                  [i \in DOMAIN available |->
                     counts[available[i]] - desired_counts[available[i]]])

\* sorted(available, key=lambda fid: assigned_counts[fid] - desired_counts[fid])
CoverageCandidates(night, counts) ==
    LET available == Available(night)
    IN StableSort(available,
                  [i \in DOMAIN available |->
                     counts[available[i]] - desired_counts[available[i]]])

CoverageNight ==
    /\ pc = "coverage"
    /\ todo # <<>>
    /\ LET night == Head(todo)
       IN IF Available(night) = <<>>
          THEN UNCHANGED <<assignments, faculty_assignments, assigned_counts>>
          ELSE AssignAll(TopN(CoverageCandidates(night, assigned_counts)), night)
    /\ todo' = Tail(todo)
    /\ UNCHANGED <<config, index, pc, strategy, round_num, max_rounds, pending,
                   round_base, outcome, results, error, first_schedule, rerun>>

\* ----------------------------------------------------------- satisfaction
\* A variant that keeps a requester active at the desired count.
ActiveFacultyAtQuota(counts) ==
    {f \in DOMAIN faculty : counts[f] <= desired_counts[f]}

\* [fid for fid in self.faculty.keys() if assigned_counts[fid] < desired]
ActiveFaculty(counts) ==
    {f \in DOMAIN faculty : counts[f] < desired_counts[f]}

\* [night for night in self.faculty_requests[faculty_id]
\*  if len(self.assignments[night]) < self.nights_per_coverage]
AvailableNights(f) ==
    {night \in faculty_requests[f] :
        Len(Get(assignments, night)) < nights_per_coverage}

\* min(available_nights, key=lambda n: len(self.requests[n])): the first
\* night of least key in the iteration order of a set of strings, which the
\* interpreter's string hashing decides; any night of least key can be it.
BestNights(available_nights) ==
    {night \in available_nights :
        \A other \in available_nights :
            Len(requests[night]) <= Len(requests[other])}

\* One pass of "for round_num in range(max_rounds)" up to the shuffle.
SatisfactionRound ==
    /\ pc = "satisfaction"
    /\ pending = {}
    /\ round_num < max_rounds
    /\ ActiveFaculty(assigned_counts) # {}
    /\ pending' = ActiveFaculty(assigned_counts)
    /\ round_num' = round_num + 1
    /\ round_base' = assigned_counts
    /\ UNCHANGED <<config, index, assignments, faculty_assignments, pc,
                   strategy, assigned_counts, todo, max_rounds, outcome,
                   results, error, first_schedule, rerun>>

\* One pass of "for faculty_id in active_faculty": random.shuffle makes any
\* member still pending the next one.  Reading self.assignments[night] for
\* each requested night inserts the missing keys.
SatisfactionTurn ==
    /\ pc = "satisfaction"
    /\ \E f \in pending :
         /\ pending' = pending \ {f}
         /\ IF AvailableNights(f) = {}
            THEN /\ assignments' = TouchAll(assignments, faculty_requests[f])
                 /\ UNCHANGED <<faculty_assignments, assigned_counts>>
            ELSE \E best_night \in BestNights(AvailableNights(f)) :
                   /\ assignments' =
                        [TouchAll(assignments, faculty_requests[f])
                           EXCEPT ![best_night] = Append(@, f)]
                   /\ faculty_assignments' =
                        [Touch(faculty_assignments, f)
                           EXCEPT ![f] = Append(@, best_night)]
                   /\ assigned_counts' =
                        [assigned_counts EXCEPT ![f] = @ + 1]
    /\ UNCHANGED <<config, index, pc, strategy, todo, round_num, max_rounds,
                   round_base, outcome, results, error, first_schedule, rerun>>

\* ---------------------------------------------------------------- results
\* The run's loop is over: the for loop over nights is exhausted, or the
\* round loop has run max_rounds rounds or found no active requester.
LoopDone ==
    \/ pc \in {"balanced", "coverage"} /\ todo = <<>>
    \/ /\ pc = "satisfaction"
       /\ pending = {}
       /\ round_num = max_rounds \/ ActiveFaculty(assigned_counts) = {}

Fraction(a, b) == [num |-> a * 100, den |-> b]

Zero == [num |-> 0, den |-> 1]

SameValue(x, y) == x.num * y.den = y.num * x.den

CoveredNights(asg) ==
    Cardinality({i \in DOMAIN nights :
                    Len(asg[nights[i]]) >= nights_per_coverage})

PartiallyCovered(asg) ==
    Cardinality({i \in DOMAIN nights :
                    /\ 0 < Len(asg[nights[i]])
                    /\ Len(asg[nights[i]]) < nights_per_coverage})

\* A variant that reports the filled share of the period's slots.
CoverageRateBySlots(asg) ==
    Fraction(SumLen(asg, Range(nights)), Len(nights) * nights_per_coverage)

\* (covered_nights / total_nights * 100)
CoverageRate(asg) == Fraction(CoveredNights(asg), Len(nights))

IsFullGap(asg, night) == Len(asg[night]) = 0

IsPartialGap(asg, night) ==
    0 < Len(asg[night]) /\ Len(asg[night]) < nights_per_coverage

\* (assigned / desired * 100) if desired > 0 else 0
Fulfillment(assigned, desired) ==
    IF desired > 0 THEN Fraction(assigned, desired) ELSE Zero

FacultyStats(fasg) ==
    [f \in DOMAIN faculty |->
        [requested |-> Cardinality(faculty_requests[f]),
         desired |-> desired_counts[f],
         assigned |-> Len(fasg[f]),
         difference |-> Len(fasg[f]) - desired_counts[f],
         fulfillment |-> Fulfillment(Len(fasg[f]), desired_counts[f]),
         nights |-> StableSort(fasg[f], fasg[f])]]

Metrics(asg, fasg) ==
    LET total_nights == Len(nights)
        total_desired == SumOf(desired_counts, DOMAIN desired_counts)
        total_assigned == SumLen(fasg, DOMAIN fasg)
    IN [total_nights |-> total_nights,
        fully_covered |-> CoveredNights(asg),
        partially_covered |-> PartiallyCovered(asg),
        uncovered |-> total_nights - CoveredNights(asg) - PartiallyCovered(asg),
        coverage_rate |-> CoverageRate(asg),
        total_shifts_needed |-> total_nights * nights_per_coverage,
        total_shifts_filled |-> SumLen(asg, DOMAIN asg),
        full_gaps |-> SelectSeq(nights, LAMBDA n : IsFullGap(asg, n)),
        partial_gaps |-> SelectSeq(nights, LAMBDA n : IsPartialGap(asg, n)),
        faculty_stats |-> FacultyStats(fasg),
        overall_satisfaction |-> Fulfillment(total_assigned, total_desired),
        total_desired |-> total_desired,
        total_assigned |-> total_assigned]

\* _generate_results reads self.assignments[night] for every night of the
\* period and self.faculty_assignments[id] for every requester, which
\* inserts the missing keys, and returns dict(self.assignments).
GenerateResults ==
    /\ LoopDone
    /\ LET asg == TouchAll(assignments, Range(nights))
           fasg == TouchAll(faculty_assignments, DOMAIN faculty)
       IN /\ assignments' = asg
          /\ faculty_assignments' = fasg
          /\ results' = [schedule |-> asg, metrics |-> Metrics(asg, fasg)]
          /\ first_schedule' =
               IF strategy \in DOMAIN first_schedule
                  /\ ~first_schedule[strategy].known
               THEN [first_schedule EXCEPT
                       ![strategy] = [known |-> TRUE, schedule |-> asg]]
               ELSE first_schedule
    /\ pc' = "idle"
    /\ outcome' = "ok"
    /\ UNCHANGED <<config, index, strategy, locals, error, rerun>>

\* ---------------------------------------------------------- specification
Next ==
    \/ LoadFacultyRequests
    \/ OptimizeBalanced
    \/ OptimizeCoverageFirst
    \/ OptimizeSatisfaction
    \/ OptimizeUnknown
    \/ BalancedNight
    \/ CoverageNight
    \/ SatisfactionRound
    \/ SatisfactionTurn
    \/ GenerateResults

Spec == Init /\ [][Next]_vars

\* ------------------------------------------------------------------ claims
\* The input request relation: requester f asked for date d.
Requested(f, d) == d \in faculty[f].requested_dates

Returned == outcome = "ok"

Schedule == results.schedule

\* C1: for every strategy, at every step of a run, no requester id occurs
\* more than once in any night's assignment list.
NoRequesterTwiceInANight ==
    \A night \in DOMAIN assignments :
        \A i, j \in DOMAIN assignments[night] :
            i # j => assignments[night][i] # assignments[night][j]

\* C2: at every step of a run, for every strategy, every night key of the
\* schedule holds at most nights_per_coverage requesters.
HeadcountBound ==
    /\ \A night \in DOMAIN assignments :
          Len(assignments[night]) <= nights_per_coverage
    /\ Returned =>
          \A night \in DOMAIN Schedule :
              Len(Schedule[night]) <= nights_per_coverage

\* C2 witness: during a satisfaction round a requester whose turn is still
\* to come has requested a night that is already full.
FullNightStillRequested ==
    /\ pc = "satisfaction"
    /\ \E f \in pending :
          \E night \in faculty_requests[f] :
              /\ Len(Get(assignments, night)) = nights_per_coverage
              /\ AvailableNights(f) = {}

\* C3: every (requester, night) pair of the schedule, while it is built and
\* when it is returned, is a pair of the input request relation.
RequestValidity ==
    /\ \A night \in DOMAIN assignments :
          \A i \in DOMAIN assignments[night] :
              Requested(assignments[night][i], night)
    /\ Returned =>
          \A night \in DOMAIN Schedule :
              \A i \in DOMAIN Schedule[night] :
                  Requested(Schedule[night][i], night)

\* C3 witness: a returned schedule assigns a night to one requester while
\* another requester, who did not ask for that night, got nothing.
AssignedOnlyToItsRequester ==
    /\ Returned
    /\ \E night \in DOMAIN Schedule :
          \E f, g \in DOMAIN faculty :
              /\ f \in Range(Schedule[night])
              /\ ~Requested(g, night)
              /\ desired_counts[g] > 0
              /\ Len(faculty_assignments[g]) = 0

\* C4: after a balanced run every requester's assigned-count is at most
\* their desired_nights.
BalancedQuotaRespect ==
    (Returned /\ strategy = "balanced") =>
        \A f \in DOMAIN faculty :
            results.metrics.faculty_stats[f].assigned <= desired_counts[f]

\* C5: at every step of a satisfaction run, whatever the shuffle orders,
\* every requester's assigned-count is at most their desired_nights, and no
\* requester has gained more than one assignment in the current round.
SatisfactionQuotaRespect ==
    (strategy = "satisfaction" /\ outcome \in {"running", "ok"}) =>
        \A f \in DOMAIN faculty :
            /\ assigned_counts[f] <= desired_counts[f]
            /\ Len(Get(faculty_assignments, f)) <= desired_counts[f]
            /\ assigned_counts[f] - round_base[f] \in {0, 1}

\* C5 witness: the round loop is over with a requester who reached a quota
\* of two nights and still has a requested night with a free slot.
QuotaStopsARequester ==
    /\ Returned
    /\ strategy = "satisfaction"
    /\ \E f \in DOMAIN faculty :
          /\ desired_counts[f] = 2
          /\ Len(faculty_assignments[f]) = 2
          /\ AvailableNights(f) # {}

\* C6: after a coverage run every night of the period holds exactly
\* min(nights_per_coverage, number of distinct requesters of that night)
\* requesters, whatever their desired-counts.
CoverageMaximalFill ==
    (Returned /\ strategy = "coverage") =>
        \A i \in DOMAIN nights :
            Len(Schedule[nights[i]]) =
                Min(nights_per_coverage,
                    Cardinality({f \in DOMAIN faculty : Requested(f, nights[i])}))

\* C6 witness: a coverage run filled a two-slot night whose requesters all
\* wanted no night at all, and left another night short of requesters.
FilledBeyondQuota ==
    /\ Returned
    /\ strategy = "coverage"
    /\ nights_per_coverage = 2
    /\ \E i, j \in DOMAIN nights :
          /\ Len(Schedule[nights[i]]) = 2
          /\ \A f \in Range(Schedule[nights[i]]) : desired_counts[f] = 0
          /\ Len(Schedule[nights[j]]) = 1

\* C7: in a returned schedule every night with an assigned requester is a
\* night of the period, and total_shifts_filled <= total_shifts_needed.
OnlyNightsOfThePeriodAssigned ==
    Returned =>
        /\ \A night \in DOMAIN Schedule :
              Len(Schedule[night]) > 0 => night \in Range(nights)
        /\ results.metrics.total_shifts_filled
              <= results.metrics.total_shifts_needed

\* C8: a call with a strategy name other than the three known ones ends in
\* an error naming that strategy, and a call that ends in an error leaves
\* assignments, faculty_assignments, requests and desired_counts as they were.
UnknownStrategyMutatesNothing ==
    [][/\ (strategy' # strategy /\ strategy' \notin KnownStrategies) =>
              /\ outcome' = "error"
              /\ error' = [type |-> "ValueError", strategy |-> strategy']
       /\ outcome' = "error" =>
              /\ strategy' \notin KnownStrategies
              /\ assignments' = assignments
              /\ faculty_assignments' = faculty_assignments
              /\ requests' = requests
              /\ desired_counts' = desired_counts]_vars

\* C8 witness: a call has failed on an optimizer that still holds the
\* non-empty schedule of an earlier successful run.
ErrorAfterASchedule ==
    /\ outcome = "error"
    /\ error.strategy \notin KnownStrategies
    /\ \E night \in DOMAIN assignments : assignments[night] # <<>>
    /\ \E f \in DOMAIN faculty_assignments : faculty_assignments[f] # <<>>

\* C9: a balanced or coverage run that repeats a strategy already run on
\* the same loaded requests returns the schedule that strategy's first run
\* returned, whatever ran in between.
RepeatableRuns ==
    (Returned /\ rerun /\ strategy \in RepeatableStrategies) =>
        Schedule = first_schedule[strategy].schedule

\* C9 witness: a balanced rerun has returned a non-empty schedule on an
\* optimizer that has also run the coverage strategy, with another result.
RerunAfterOtherStrategy ==
    /\ Returned
    /\ rerun
    /\ strategy = "balanced"
    /\ first_schedule["coverage"].known
    /\ first_schedule["coverage"].schedule # first_schedule["balanced"].schedule
    /\ \E night \in DOMAIN Schedule : Schedule[night] # <<>>

\* A returned schedule that keeps every requester within the desired count,
\* names no requester twice in a night and assigns only nights of the period.
PlainSchedule ==
    /\ \A f \in DOMAIN results.metrics.faculty_stats :
          results.metrics.faculty_stats[f].difference <= 0
    /\ \A night \in DOMAIN Schedule :
          /\ Cardinality(Range(Schedule[night])) = Len(Schedule[night])
          /\ night \in Range(nights)

ZeroQuotaFulfillment ==
    Returned =>
        \A f \in DOMAIN results.metrics.faculty_stats :
            (desired_counts[f] = 0 /\ faculty[f].requested_dates = {}) =>
                /\ results.metrics.faculty_stats[f].assigned = 0
                /\ \A night \in DOMAIN Schedule : f \notin Range(Schedule[night])
                /\ SameValue(results.metrics.faculty_stats[f].fulfillment,
                             Fraction(1, 1))

\* C12: in a balanced run with a headcount of 1, when a night's candidates
\* are two requesters with the same positive deficit, the one of the higher
\* priority tier (the smaller priority number) gets the night, whichever of
\* the two was loaded first.
BalancedPriorityTieBreak ==
    [][(pc = "balanced" /\ todo # <<>> /\ nights_per_coverage = 1) =>
          LET night == Head(todo)
              candidates == requests[night]
          IN \A a, b \in DOMAIN faculty :
                (/\ Len(candidates) = 2
                 /\ Range(candidates) = {a, b}
                 /\ desired_counts[a] - assigned_counts[a]
                       = desired_counts[b] - assigned_counts[b]
                 /\ desired_counts[a] - assigned_counts[a] > 0
                 /\ faculty[a].priority < faculty[b].priority)
                => Get(assignments', night) = <<a>>]_vars

\* C12 witness: the first night of a balanced run with a headcount of 1 had
\* two candidates of equal desired count, and went to the one of the higher
\* tier although the other one was loaded first.
HigherTierLoadedLastWins ==
    /\ pc = "balanced"
    /\ nights_per_coverage = 1
    /\ Len(todo) = Len(nights) - 1
    /\ LET night == NightsByDifficulty[1]
       IN /\ Len(requests[night]) = 2
          /\ faculty[requests[night][2]].priority
                < faculty[requests[night][1]].priority
          /\ desired_counts[requests[night][1]] > 0
          /\ desired_counts[requests[night][1]]
                = desired_counts[requests[night][2]]
          /\ Get(assignments, night) = <<requests[night][2]>>

\* C13: for any two candidates a and b of the night a balanced run is about
\* to fill, deficit(a) > deficit(b) implies score(a) > score(b).
DeficitDominatesPriority ==
    (pc = "balanced" /\ todo # <<>>) =>
        \A a, b \in Range(requests[Head(todo)]) :
            Deficit(a, assigned_counts) > Deficit(b, assigned_counts) =>
                Score(a, assigned_counts) > Score(b, assigned_counts)

\* What is left of a satisfaction run: the rounds not yet begun, each worth
\* more than a full round of turns, plus the turns left in this round.
SatisfactionWorkLeft ==
    (max_rounds - round_num) * (Cardinality(DOMAIN faculty) + 1)
        + Cardinality(pending)

\* A satisfaction run has begun no more rounds than the largest desired
\* count, and is never stuck before it returns.
SatisfactionBounded ==
    /\ (strategy = "satisfaction" /\ outcome \in {"running", "ok"}) =>
          \/ round_num = 0
          \/ \E f \in DOMAIN assigned_counts : round_num <= desired_counts[f]
    /\ pc = "satisfaction" =>
          /\ SatisfactionWorkLeft >= 0
          /\ ENABLED (SatisfactionRound \/ SatisfactionTurn \/ GenerateResults)

\* A returned satisfaction run leaves no requester below the desired count
\* with a requested night that has a free slot.
SatisfactionMaximal ==
    (Returned /\ strategy = "satisfaction") =>
        \A f \in DOMAIN assigned_counts :
            assigned_counts[f] < desired_counts[f] =>
                \A night \in faculty[f].requested_dates :
                    Len(Get(assignments, night)) >= nights_per_coverage

\* C14: whatever the shuffle orders, a satisfaction run begins at most
\* max(desired_nights) rounds, every step of its loop uses up some of the
\* work left and it is never stuck, so it returns; and it returns a state in
\* which no requester below the desired count still has a requested night
\* with a free slot.
SatisfactionBoundedAndMaximal ==
    /\ [](SatisfactionBounded /\ SatisfactionMaximal)
    /\ [][(pc = "satisfaction" /\ pc' = "satisfaction") =>
              SatisfactionWorkLeft' < SatisfactionWorkLeft]_vars

\* C14 witness: a satisfaction run has returned after its second and last
\* round, leaving a requester below the desired count whose requested
\* nights are all full, one of them held by another requester.
RanAllRoundsAndBlocked ==
    /\ Returned
    /\ strategy = "satisfaction"
    /\ round_num = 2
    /\ max_rounds = 2
    /\ \E f, g \in DOMAIN assigned_counts :
          /\ f # g
          /\ assigned_counts[f] < desired_counts[f]
          /\ \E night \in faculty_requests[f] : g \in Range(assignments[night])

====
